---------------------------- MODULE Spec2Model ----------------------------
(***************************************************************************)
(* A model of the daylit tray daemon (daylit-tray/src-tauri/src): the      *)
(* webhook listener thread of server.rs, the work items it submits to the  *)
(* GUI main thread, the commands of commands.rs and the AppState of        *)
(* state.rs they share.                                                    *)
(*                                                                         *)
(* Option<T> is modelled as a sequence of length 0 (None) or 1 (Some).     *)
(* Byte strings that the code compares byte by byte (header names, the     *)
(* secret) are sequences of byte values; other strings are TLA+ strings.   *)
(***************************************************************************)
EXTENDS Integers, Sequences, FiniteSets, TLC

None == <<>>

Some(x) == <<x>>

IsSome(o) == Len(o) = 1

Unwrap(o) == o[1]

(***************************************************************************)
(* Bounds of the model.                                                    *)
(***************************************************************************)
\* Number of requests the listener is given in one run.
MaxRequests == 3

(***************************************************************************)
(* JSON values, as serde_json sees them.                                   *)
(***************************************************************************)
\* A number is kept as an integer when it is below 2^31; wide marks a
\* number that is larger than any u32.
JStr(s) == [t |-> "string", s |-> s, n |-> 0, b |-> FALSE, wide |-> FALSE]

JNum(n) == [t |-> "number", s |-> "", n |-> n, b |-> FALSE, wide |-> FALSE]

JWideNum == [t |-> "number", s |-> "", n |-> 0, b |-> FALSE, wide |-> TRUE]

JBool(b) == [t |-> "bool", s |-> "", n |-> 0, b |-> b, wide |-> FALSE]

JNull == [t |-> "null", s |-> "", n |-> 0, b |-> FALSE, wide |-> FALSE]

\* A JSON document: text that is no JSON at all, or an object (a function
\* from the names of the fields it has to their values).
JGarbage == [kind |-> "garbage", fields |-> <<>>]

JObject(f) == [kind |-> "object", fields |-> f]

\* Result<T, E>
Ok(v) == [ok |-> TRUE, val |-> Some(v)]

Err == [ok |-> FALSE, val |-> None]

(***************************************************************************)
(* state.rs                                                                *)
(***************************************************************************)
Settings_default ==
    [font_size |-> "medium",
     launch_at_login |-> FALSE,
     lockfile_dir |-> None,
     daylit_path |-> None,
     use_native_notifications |-> FALSE]

SettingsFields ==
    {"font_size", "launch_at_login", "lockfile_dir", "daylit_path",
     "use_native_notifications"}

\* Whether JSON value v deserializes into the type of Settings field f.
FieldTypeOk(f, v) ==
    CASE f = "font_size" -> v.t = "string"
      [] f \in {"launch_at_login", "use_native_notifications"} -> v.t = "bool"
      [] f \in {"lockfile_dir", "daylit_path"} -> v.t \in {"string", "null"}
      [] OTHER -> TRUE

\* The value of Settings field f read from JSON value v of the right type.
FieldValue(f, v) ==
    CASE f = "font_size" -> v.s
      [] f \in {"launch_at_login", "use_native_notifications"} -> v.b
      [] OTHER -> IF v.t = "null" THEN None ELSE Some(v.s)

\* A Settings without #[serde(default)]: a missing field is an error, but
\* for the Option fields, which are None when missing.
Settings_from_value_strict(doc) ==
    IF doc.kind # "object" THEN Err
    ELSE IF \E f \in (DOMAIN doc.fields) \cap SettingsFields :
                ~FieldTypeOk(f, doc.fields[f]) THEN Err
    ELSE IF \E f \in SettingsFields \ {"lockfile_dir", "daylit_path"} :
                f \notin DOMAIN doc.fields THEN Err
    ELSE Ok([f \in SettingsFields |->
                IF f \in DOMAIN doc.fields
                THEN FieldValue(f, doc.fields[f])
                ELSE None])

\* serde_json::from_value::<Settings> under #[serde(default)]: a field the
\* document lacks takes the default's value, a field of the wrong type is
\* an error, a field the struct does not know is ignored.
Settings_from_value(doc) ==
    IF doc.kind # "object" THEN Err
    ELSE IF \E f \in (DOMAIN doc.fields) \cap SettingsFields :
                ~FieldTypeOk(f, doc.fields[f]) THEN Err
    ELSE Ok([f \in SettingsFields |->
                IF f \in DOMAIN doc.fields
                THEN FieldValue(f, doc.fields[f])
                ELSE Settings_default[f]])

\* serde_json::to_value(&settings): every field is written.
Settings_to_value(s) ==
    JObject([f \in SettingsFields |->
        CASE f = "font_size" -> JStr(s.font_size)
          [] f \in {"launch_at_login", "use_native_notifications"} -> JBool(s[f])
          [] OTHER -> IF IsSome(s[f]) THEN JStr(Unwrap(s[f])) ELSE JNull])

\* Settings::load: store.get("settings").and_then(from_value(..).ok())
\*                 .unwrap_or_default()
Settings_load(st) ==
    IF ~IsSome(st) THEN Settings_default
    ELSE LET r == Settings_from_value(Unwrap(st))
         IN IF r.ok THEN Unwrap(r.val) ELSE Settings_default

\* A payload whose duration_ms has #[serde(default)]: an object with a text
\* and no duration_ms parses, with duration_ms 0.
WebhookPayload_default_duration(content) ==
    IF content.kind # "object" THEN Err
    ELSE IF "text" \notin DOMAIN content.fields THEN Err
    ELSE IF content.fields["text"].t # "string" THEN Err
    ELSE IF "duration_ms" \notin DOMAIN content.fields
         THEN Ok([text |-> content.fields["text"].s, duration_ms |-> 0])
    ELSE IF content.fields["duration_ms"].t # "number" THEN Err
    ELSE IF content.fields["duration_ms"].wide THEN Err
    ELSE IF content.fields["duration_ms"].n < 0 THEN Err
    ELSE Ok([text |-> content.fields["text"].s,
             duration_ms |-> content.fields["duration_ms"].n])

\* serde_json::from_str::<WebhookPayload>: both fields are required (the
\* struct has no #[serde(default)]), text must be a string and duration_ms
\* a number that fits a u32 (not negative, not wide); other fields are ignored.  Nothing else about
\* the values is checked.
WebhookPayload_from_str(content) ==
    IF content.kind # "object" THEN Err
    ELSE IF ~({"text", "duration_ms"} \subseteq DOMAIN content.fields) THEN Err
    ELSE IF content.fields["text"].t # "string" THEN Err
    ELSE IF content.fields["duration_ms"].t # "number" THEN Err
    ELSE IF content.fields["duration_ms"].wide THEN Err
    ELSE IF content.fields["duration_ms"].n < 0 THEN Err
    ELSE Ok([text |-> content.fields["text"].s,
             duration_ms |-> content.fields["duration_ms"].n])

\* An update that carries the text and not the duration.
UpdatePayload_text_only(p) == [text |-> p.text, duration_ms |-> 0]

\* UpdatePayload { text: payload.text, duration_ms: payload.duration_ms }
UpdatePayload(p) == [text |-> p.text, duration_ms |-> p.duration_ms]


LOCKFILE_NAME == "daylit-tray.lock"

(***************************************************************************)
(* server.rs: validate_request                                             *)
(***************************************************************************)
\* "X-Daylit-Secret" and "x-daylit-secret" as bytes.
X_DAYLIT_SECRET ==
    <<88, 45, 68, 97, 121, 108, 105, 116, 45, 83, 101, 99, 114, 101, 116>>

x_daylit_secret ==
    <<120, 45, 100, 97, 121, 108, 105, 116, 45, 115, 101, 99, 114, 101, 116>>

\* "Content-Type"
CONTENT_TYPE == <<67, 111, 110, 116, 101, 110, 116, 45, 84, 121, 112, 101>>

\* u8::to_ascii_lowercase
to_ascii_lowercase(b) == IF b \in 65..90 THEN b + 32 ELSE b

\* A comparison of names that minds the case.
eq_exact(a, b) == a = b

\* str::eq_ignore_ascii_case
eq_ignore_ascii_case(a, b) ==
    /\ Len(a) = Len(b)
    /\ \A i \in 1..Len(a) : to_ascii_lowercase(a[i]) = to_ascii_lowercase(b[i])

\* subtle's ct_eq on byte slices: 0 when the lengths differ, else the AND
\* over all positions of the bytes' equality (no early exit).
RECURSIVE ct_fold(_, _, _, _)
ct_fold(a, b, i, x) ==
    IF i > Len(a) THEN x
    ELSE ct_fold(a, b, i + 1, IF a[i] = b[i] THEN x ELSE 0)

\* A comparison over the zip of the two slices, which stops at the end of
\* the shorter one.
ct_eq_zip(a, b) ==
    LET m == IF Len(a) < Len(b) THEN Len(a) ELSE Len(b)
    IN ct_fold(SubSeq(a, 1, m), SubSeq(b, 1, m), 1, 1)

ct_eq(a, b) == IF Len(a) # Len(b) THEN 0 ELSE ct_fold(a, b, 1, 1)

\* headers.iter().find(name matches).map(value ct_eq secret).unwrap_or(false)
RECURSIVE find_header(_, _)
find_header(headers, i) ==
    IF i > Len(headers) THEN None
    ELSE IF eq_ignore_ascii_case(headers[i].field, X_DAYLIT_SECRET)
         THEN Some(headers[i])
         ELSE find_header(headers, i + 1)

\* A validation that looks for the header and not at its value.
validate_header_present(headers, expected_secret) ==
    IsSome(find_header(headers, 1))

validate_request(headers, expected_secret) ==
    LET h == find_header(headers, 1)
    IN IF IsSome(h) THEN ct_eq(Unwrap(h).value, expected_secret) = 1 ELSE FALSE

(***************************************************************************)
(* Inputs of the model.                                                    *)
(***************************************************************************)
\* take(32) of the Alphanumeric distribution
SecretLen == 32

\* The secrets a run may draw: 32 alphanumeric bytes.
Secrets == {[i \in 1..SecretLen |-> IF i = 1 THEN 55 ELSE 107]}

Header(f, v) == [field |-> f, value |-> v]

ContentType == Header(CONTENT_TYPE, <<106>>)

\* Header lists that carry the secret of the run, under the canonical
\* name and in lower case.
GoodHeaders(sec) == <<ContentType, Header(X_DAYLIT_SECRET, sec)>>

LowerCaseHeaders(sec) == <<Header(x_daylit_secret, sec)>>

\* Header lists that do not: no secret header, the secret with its last
\* byte changed, a proper prefix of it, the secret with one more byte, and
\* an empty secret header before the right one.
BadHeaderLists(sec) ==
    {<<ContentType>>,
     <<ContentType, Header(X_DAYLIT_SECRET, [sec EXCEPT ![SecretLen] = 33])>>,
     <<ContentType, Header(X_DAYLIT_SECRET, SubSeq(sec, 1, SecretLen - 1))>>,
     <<ContentType, Header(X_DAYLIT_SECRET, Append(sec, 107))>>,
     <<Header(X_DAYLIT_SECRET, <<>>), Header(x_daylit_secret, sec)>>}

\* Request bodies: one that cannot be read (an I/O error, or bytes that
\* are not UTF-8), text that is no JSON, and JSON objects.
BodyUnreadable == [readable |-> FALSE, json |-> JGarbage]

BodyText(j) == [readable |-> TRUE, json |-> j]

StandUp == BodyText(JObject([text |-> JStr("Stand up"), duration_ms |-> JNum(5000)]))

Bodies ==
    {BodyUnreadable,
     BodyText(JGarbage),
     BodyText(JObject([text |-> JStr("x")])),
     BodyText(JObject([text |-> JNum(7), duration_ms |-> JNum(5000)])),
     BodyText(JObject([text |-> JStr("a"), duration_ms |-> JWideNum])),
     BodyText(JObject([text |-> JStr("Stretch"), duration_ms |-> JNum(0)])),
     BodyText(JObject([text |-> JStr(""), duration_ms |-> JNum(3000),
                       extra |-> JBool(TRUE)])),
     StandUp}

Request(m, h, b) == [method |-> m, headers |-> h, body |-> b]

\* The requests a client may send, given the secret of the run.
Requests(sec) ==
    {Request("POST", GoodHeaders(sec), b) : b \in Bodies}
    \cup {Request("POST", LowerCaseHeaders(sec), StandUp)}
    \cup {Request("POST", h, b) :
            h \in BadHeaderLists(sec), b \in {StandUp, BodyText(JGarbage)}}
    \cup {Request("GET", h, StandUp) : h \in {GoodHeaders(sec), <<ContentType>>}}

Dirs == {"appcfg", "d1"}

Ports == {49152}

Pids == {4242}

\* The Settings values the GUI passes to save_settings in Spec: the
\* defaults, with either notification mode.
NativeInputs ==
    {[Settings_default EXCEPT !.use_native_notifications = b] : b \in BOOLEAN}

(***************************************************************************)
(* State.                                                                  *)
(***************************************************************************)
VARIABLES
    \* AppState (state.rs:53-58)
    store,          \* settings: the store's value under the key "settings"
    payload,        \* payload: Mutex<Option<WebhookPayload>>
    lockfile_path,  \* lockfile_path: Mutex<Option<PathBuf>>
    secret,         \* secret: Mutex<Option<String>>
    poisoned,       \* whether the lockfile_path mutex is poisoned
    \* The environment
    files,          \* the file at each path, if any: contents and mode
    autolaunch,     \* whether the OS launches the app at login
    app_config_dir, \* what app_handle.path().app_config_dir() gives: Ok(dir) or Err
    dialogs,        \* the webview windows labelled notification_dialog
    mainQueue,      \* the closures handed to run_on_main_thread, in order
    \* The listener thread (server.rs:36-250)
    lpc,            \* where the thread is
    l,              \* its locals: port, settings, secret, path, payload
    nreq,           \* requests received so far
    \* The thread running save_settings (commands.rs:11-56)
    spc,            \* where the call is
    s_settings,     \* its argument
    \* History
    cur,            \* the request the listener took last, and what it did for it
    nacc,           \* payloads accepted so far
    shown,          \* what the dialog was given last
    built,          \* how the last attempt to build a dialog ended
    \* The process (lib.rs:225-332)
    proc,           \* "running", or how it ended: "destroyed" or "quit"
    \* History of save_settings
    s_trace,        \* the steps the call in progress, or the last call, completed
    s_outcome,      \* how the last call ended: Ok, Err of a step, or a panic
    s_emitted,      \* the settings of the last settings-updated event
    \* The poller thread (scheduler.rs:62-86)
    ppc,            \* where the thread is
    p_interval,     \* its local interval_ms
    p_path,         \* its local daylit_path
    env,            \* DAYLIT_SCHEDULER_INTERVAL_MS in the process environment
    p_log,          \* history: what the thread has done, in order
    p_slept,        \* history: the milliseconds it slept last
    p_last,         \* history: the subprocess it ran last
    \* A call of a pure function
    fn,             \* the function called, "none" before the call
    v_headers,      \* validate_request: its argument headers
    v_expected,     \* validate_request: its argument expected_secret
    v_result,       \* validate_request: what it returned
    d_store,        \* Settings::load: the document under "settings", if any
    d_loaded,       \* Settings::load: what it returned
    \* The mutexes of AppState (state.rs:55-57)
    mx              \* where each thread is in its sequence of lock operations,
                    \* the mutexes it holds, the poisoned mutexes, the last call

appVars == <<store, payload, lockfile_path, secret, poisoned>>

envVars == <<files, autolaunch, app_config_dir>>

uiVars == <<dialogs, mainQueue, shown, built>>

listenerVars == <<lpc, l, nreq, cur, nacc>>

saveVars == <<spc, s_settings>>

lifeVars == <<proc>>

traceVars == <<s_trace, s_outcome, s_emitted>>

pollVars == <<ppc, p_interval, p_path, env, p_log, p_slept, p_last>>

mutexVars == <<mx>>

fnVars == <<fn, v_headers, v_expected, v_result, d_store, d_loaded>>

vars == <<appVars, envVars, uiVars, listenerVars, saveVars, lifeVars, traceVars,
          pollVars, fnVars, mutexVars>>

Path(dir) == <<dir, LOCKFILE_NAME>>

Paths == {Path(d) : d \in Dirs}

\* The threads that lock the mutexes of AppState or make the calls no
\* mutex is to be held across: the listener, the tasks that run the
\* commands save_settings and get_notification_payload, the handler of
\* tauri://destroyed, and the poller.
Threads == {"listener", "save_settings", "get_notification_payload",
            "destroyed", "poller"}

\* state.rs:55-57
Mutexes == {"payload", "lockfile_path", "secret"}

\* What the history keeps of one request: the request, the responses the
\* listener gave it, the notification mode it loaded, the calls of
\* run_on_main_thread and the native notifications it made.
NoRequest ==
    [request |-> None, done |-> FALSE, responses |-> <<>>, native |-> None,
     submits |-> 0, natives |-> <<>>]

NoLocals ==
    [port |-> None, settings |-> None, secret |-> None, path |-> None,
     payload |-> None]

(***************************************************************************)
(* lib.rs setup: the state after construction.  The store holds a          *)
(* settings document (setup writes the defaults when there is none).       *)
(***************************************************************************)
InitState ==
    /\ store = Some(Settings_to_value(Settings_default))
    /\ payload = None
    /\ lockfile_path = None
    /\ secret = None
    /\ poisoned = FALSE
    /\ autolaunch = FALSE
    /\ app_config_dir \in {Some("appcfg"), None}
    /\ dialogs = <<>>
    /\ mainQueue = <<>>
    /\ lpc = "bind"
    /\ l = NoLocals
    /\ nreq = 0
    /\ spc = "idle"
    /\ s_settings = None
    /\ cur = NoRequest
    /\ nacc = 0
    /\ shown = None
    /\ built = "none"
    /\ proc = "running"
    /\ s_trace = <<>>
    /\ s_outcome = None
    /\ s_emitted = None
    /\ ppc = "interval"
    /\ p_interval = None
    /\ p_path = None
    /\ env = None
    /\ p_log = <<>>
    /\ p_slept = None
    /\ p_last = None
    /\ fn = "none"
    /\ v_headers = None
    /\ v_expected = None
    /\ v_result = None
    /\ d_store = None
    /\ d_loaded = None
    /\ mx = [pc |-> [t \in Threads |-> 1],
             held |-> [t \in Threads |-> {}],
             poisoned |-> {},
             last |-> [thread |-> "", what |-> "", held |-> {}]]

\* The first run: no lock file exists.
Init == InitState /\ files = [p \in Paths |-> None]

(***************************************************************************)
(* server.rs: start_webhook_server, the listener thread's startup.         *)
(***************************************************************************)
\* from_mode(0o600)
MODE_0600 == 384

\* The modes fs::write gives a file it creates (0o666 less the umask).
DefaultModes == {420}

File(content, mode) == [content |-> content, mode |-> mode]

\* fs::write(path, content): the file is created with a default mode, or
\* truncated and rewritten with the mode it has.
fs_write(fs, path, content, mode) ==
    [fs EXCEPT ![path] =
        Some(File(content, IF IsSome(fs[path]) THEN Unwrap(fs[path]).mode ELSE mode))]

\* format!("{}|{}|{}", port, pid, secret)
lock_content(port, pid, sec) == <<port, pid, sec>>

\* Server::http("127.0.0.1:0"), server_addr().to_ip(): the thread returns
\* when either fails.
ServerBind ==
    /\ lpc = "bind"
    /\ \E ok \in BOOLEAN, p \in Ports :
          IF ok
          THEN lpc' = "init" /\ l' = [l EXCEPT !.port = Some(p)]
          ELSE lpc' = "exited" /\ l' = l
    /\ UNCHANGED <<appVars, envVars, uiVars, nreq, cur, nacc, saveVars>>

\* Settings::load, the secret drawn and stored in AppState.
ListenerInit ==
    /\ lpc = "init"
    /\ \E sec \in Secrets :
          /\ secret' = Some(sec)
          /\ l' = [l EXCEPT !.settings = Some(Settings_load(store)),
                            !.secret = Some(sec)]
    /\ lpc' = "lockfile"
    /\ UNCHANGED <<store, payload, lockfile_path, poisoned, envVars, uiVars,
                   nreq, cur, nacc, saveVars>>

\* A startup that goes on when set_permissions fails.
ignore_set_permissions(fail) ==
    IF fail \in {"none", "set_permissions"} THEN "store" ELSE "exited"

\* error!(..); return; after each of create_dir_all, write and
\* set_permissions: where the thread goes after the lock file block.
after_lockfile(fail) == IF fail = "none" THEN "store" ELSE "exited"

\* The directory resolved and created, the lock file written and its mode
\* set; the thread returns at the first of these that fails.
ListenerWriteLock ==
    /\ lpc = "lockfile"
    /\ \E fail \in {"none", "create_dir_all", "write", "set_permissions"},
          pid \in Pids, mode \in DefaultModes :
          LET settings == Unwrap(l.settings)
              config_dir == IF IsSome(settings.lockfile_dir)
                            THEN settings.lockfile_dir
                            ELSE app_config_dir
              lock_file_path == Path(Unwrap(config_dir))
              written == fs_write(files, lock_file_path,
                                  lock_content(Unwrap(l.port), pid, Unwrap(l.secret)),
                                  mode)
          IN IF ~IsSome(config_dir)
             THEN lpc' = "exited" /\ l' = [l EXCEPT !.settings = None]
                  /\ UNCHANGED files
             ELSE /\ files' = CASE fail \in {"create_dir_all", "write"} -> files
                                [] fail = "set_permissions" -> written
                                [] OTHER ->
                                     [written EXCEPT ![lock_file_path] =
                                         Some(File(Unwrap(written[lock_file_path]).content,
                                                   MODE_0600))]
                  /\ lpc' = after_lockfile(fail)
                  /\ l' = IF lpc' = "store"
                          THEN [l EXCEPT !.settings = None,
                                         !.path = Some(lock_file_path)]
                          ELSE [l EXCEPT !.settings = None]
    /\ UNCHANGED <<appVars, autolaunch, app_config_dir, uiVars, nreq, cur, nacc,
                   saveVars>>

\* *state.lockfile_path.lock().expect(..) = Some(lock_file_path): a
\* poisoned mutex ends the thread.
ListenerStorePath ==
    /\ lpc = "store"
    /\ IF poisoned
       THEN lpc' = "exited" /\ UNCHANGED lockfile_path
       ELSE lpc' = "wait" /\ lockfile_path' = l.path
    /\ UNCHANGED <<store, payload, secret, poisoned, envVars, uiVars, l, nreq,
                   cur, nacc, saveVars>>

(***************************************************************************)
(* server.rs: the request loop.                                            *)
(***************************************************************************)
\* .with_status_code(401), .with_status_code(400), and the status of a
\* Response::from_string that sets none.
STATUS_UNAUTHORIZED == 401

STATUS_INVALID == 400

STATUS_OK == 200

Response(status, body) == [status |-> status, body |-> body]

\* A listener that takes every method for a POST.
any_method(method) == FALSE

\* request.method().as_str() != "POST"
not_post(method) == method # "POST"

\* The block that computes auth_valid.
auth_valid(request) ==
    IF IsSome(secret)
    THEN validate_request(request.headers, Unwrap(secret))
    ELSE FALSE

\* The payload with the number of its acceptance, which the history uses
\* to tell payloads apart; the code keeps text and duration_ms only.
Tagged(p, n) == [text |-> p.text, duration_ms |-> p.duration_ms, seq |-> n]

\* A slot that keeps the payload it has: only the first one is stored.
keep_payload(old, new) == IF IsSome(old) THEN old ELSE Some(new)

\* *state.payload.lock().expect(..) = Some(payload.clone())
replace_payload(old, new) == Some(new)

\* request.respond(response): the response handed to the connection, and
\* whether sending it succeeded.
Responded(c, response, ok) ==
    [c EXCEPT !.responses = Append(@, [response |-> response, sent |-> ok]),
              !.done = TRUE]

\* A listener that returns when reading the body or sending a response
\* fails, as it does when a step of its startup fails.
return_on_io_error(ok) == IF ok THEN "wait" ELSE "exited"

\* if let Err(e) = .. { error!(..) } and continue, or the end of the loop
\* body: where the listener goes after reading the body or sending a
\* response, succeeded or failed.
after_io(ok) == "wait"

\* One request from incoming_requests(), up to the first thing the
\* listener does that other threads see: a request that is not a POST is
\* skipped, a POST that fails validation is answered 401, one whose body
\* cannot be read is skipped, one whose body does not parse is answered
\* 400, and the payload of any other replaces the last payload.
ListenerReceive ==
    /\ lpc = "wait"
    /\ nreq < MaxRequests
    /\ nreq' = nreq + 1
    /\ \E request \in Requests(Unwrap(secret)), sent \in BOOLEAN :
        LET c == [NoRequest EXCEPT !.request = Some(request)]
            parsed == WebhookPayload_from_str(request.body.json)
        IN IF not_post(request.method)
           THEN /\ cur' = [c EXCEPT !.done = TRUE]
                /\ UNCHANGED <<payload, lpc, nacc, l>>
           ELSE IF ~auth_valid(request)
           THEN /\ cur' = Responded(c, Response(STATUS_UNAUTHORIZED, "Unauthorized"), sent)
                /\ lpc' = after_io(sent)
                /\ UNCHANGED <<payload, nacc, l>>
           ELSE IF ~request.body.readable
           THEN /\ cur' = [c EXCEPT !.done = TRUE]
                /\ lpc' = after_io(FALSE)
                /\ UNCHANGED <<payload, nacc, l>>
           ELSE IF ~parsed.ok
           THEN /\ cur' = Responded(c, Response(STATUS_INVALID, "Invalid payload"), sent)
                /\ lpc' = after_io(sent)
                /\ UNCHANGED <<payload, nacc, l>>
           ELSE /\ payload' = replace_payload(payload, Tagged(Unwrap(parsed.val), nacc + 1))
                /\ nacc' = nacc + 1
                /\ cur' = c
                /\ l' = [l EXCEPT !.payload = Some(Tagged(Unwrap(parsed.val), nacc + 1))]
                /\ lpc' = "accepted"
    /\ UNCHANGED <<store, lockfile_path, secret, poisoned, envVars, uiVars,
                   saveVars>>

\* A listener that never takes the native branch.
never_native(settings) == FALSE

\* if settings.use_native_notifications
use_native(settings) == settings.use_native_notifications

\* let settings = Settings::load(&state.settings), and the branch taken.
ListenerLoadSettings ==
    /\ lpc = "accepted"
    /\ LET settings == Settings_load(store)
       IN /\ cur' = [cur EXCEPT !.native = Some(settings.use_native_notifications)]
          /\ lpc' = IF use_native(settings) THEN "native" ELSE "custom"
    /\ UNCHANGED <<appVars, envVars, uiVars, l, nreq, nacc, saveVars>>

\* notification().builder().title("Daylit").body(&payload.text)
native_notification(p) == [title |-> "Daylit", body |-> p.text]

\* A listener that returns when a collaborator fails, as it does at startup.
exit_on_failure(ok) == IF ok THEN "respond" ELSE "exited"

\* A listener that goes on to the next request without answering this one.
skip_response(ok) == "wait"

\* if let Err(e) = .. { error!(..) }: where the listener goes after the
\* native notification or run_on_main_thread, succeeded or failed.
after_collaborator(ok) == "respond"

\* .show(): a failure is logged.
ListenerShowNative ==
    /\ lpc = "native"
    /\ \E ok \in BOOLEAN :
          /\ cur' = [cur EXCEPT !.natives =
                       Append(@, [notification |-> native_notification(Unwrap(l.payload)),
                                  shown |-> ok])]
          /\ lpc' = after_collaborator(ok)
    /\ UNCHANGED <<appVars, envVars, uiVars, l, nreq, nacc, saveVars>>

\* app_handle.run_on_main_thread(closure): the closure, which owns the
\* payload, joins the main thread's queue unless the call fails.
run_on_main_thread(queue, closure) == Append(queue, closure)

ListenerSubmit ==
    /\ lpc = "custom"
    /\ \E ok \in BOOLEAN :
          /\ mainQueue' = IF ok
                          THEN run_on_main_thread(mainQueue, Unwrap(l.payload))
                          ELSE mainQueue
          /\ lpc' = after_collaborator(ok)
    /\ cur' = [cur EXCEPT !.submits = @ + 1]
    /\ UNCHANGED <<appVars, envVars, dialogs, shown, built, l, nreq, nacc, saveVars>>

\* request.respond(Response::from_string("Notification triggered"))
ListenerRespond ==
    /\ lpc = "respond"
    /\ \E sent \in BOOLEAN :
          /\ cur' = Responded(cur, Response(STATUS_OK, "Notification triggered"), sent)
          /\ lpc' = after_io(sent)
    /\ l' = [l EXCEPT !.payload = None]
    /\ UNCHANGED <<appVars, envVars, uiVars, nreq, nacc, saveVars>>

(***************************************************************************)
(* server.rs: the closure run on the main thread.                          *)
(***************************************************************************)
\* A lookup that finds no window.
no_webview_window(windows) == None

\* app_handle.get_webview_window("notification_dialog")
get_webview_window(windows) == IF Len(windows) > 0 THEN Some(windows[1]) ELSE None

\* A window as WebviewWindowBuilder::new(.., "notification_dialog", ..)
\* .build() makes it; loaded says whether its page has asked for the
\* payload yet.
NewDialog == [label |-> "notification_dialog", loaded |-> FALSE]

\* existing_window.emit("update_notification", &UpdatePayload {..}): what
\* the dialog is given.
update_notification(item) ==
    [via |-> "update_notification", payload |-> UpdatePayload(item), seq |-> item.seq]

\* The main thread runs the closure at the head of its queue: if the
\* dialog exists it is focused and sent update_notification with the
\* closure's payload, else one is built (the main window or the primary
\* monitor not being found, or the build failing, is logged and nothing is
\* built).  A failure of set_focus or emit is logged and changes nothing
\* else.
RunWorkItem ==
    /\ mainQueue # <<>>
    /\ mainQueue' = Tail(mainQueue)
    /\ LET item == Head(mainQueue)
           existing_window == get_webview_window(dialogs)
       IN IF IsSome(existing_window)
          THEN /\ dialogs' = dialogs
               /\ shown' = Some(update_notification(item))
               /\ built' = built
          ELSE /\ \E ok \in BOOLEAN :
                     /\ dialogs' = IF ok THEN Append(dialogs, NewDialog) ELSE dialogs
                     /\ built' = IF ok THEN "ok" ELSE "failed"
               /\ shown' = shown
    /\ UNCHANGED <<appVars, envVars, listenerVars, saveVars>>

(***************************************************************************)
(* commands.rs                                                             *)
(***************************************************************************)
\* state.payload.lock().unwrap().clone()
get_notification_payload == payload

\* get_notification_payload, as the page of a new dialog calls it when it
\* has loaded: the last payload, which the dialog then shows.
GetNotificationPayload ==
    /\ Len(dialogs) > 0
    /\ ~dialogs[1].loaded
    /\ dialogs' = [dialogs EXCEPT ![1].loaded = TRUE]
    /\ LET p == get_notification_payload
       IN shown' = IF IsSome(p)
                   THEN Some([via |-> "get_notification_payload",
                              payload |-> UpdatePayload(Unwrap(p)),
                              seq |-> Unwrap(p).seq])
                   ELSE shown
    /\ UNCHANGED <<appVars, envVars, mainQueue, built, listenerVars, saveVars>>

\* close_notification_window(window): only a window labelled
\* notification_dialog is closed.
CloseNotificationWindow ==
    /\ \E label \in {"main", "notification_dialog"} :
        /\ label = "notification_dialog" => Len(dialogs) > 0
        /\ dialogs' = IF label = "notification_dialog" THEN Tail(dialogs) ELSE dialogs
    /\ UNCHANGED <<appVars, envVars, mainQueue, shown, built, listenerVars, saveVars>>

\* save_settings, to the end of the autostart block: enable() or
\* disable(), whose error is returned.
SaveAutolaunch(settings) ==
    /\ spc = "idle"
    /\ \E ok \in BOOLEAN :
          IF ok
          THEN /\ autolaunch' = settings.launch_at_login
               /\ spc' = "migrate"
               /\ s_settings' = Some(settings)
          ELSE UNCHANGED <<autolaunch, spc, s_settings>>
    /\ UNCHANGED <<appVars, files, app_config_dir, uiVars, listenerVars>>

\* The block that holds the lockfile_path guard: when the slot holds a
\* path other than the new one, the old file (if it exists) is read,
\* removed and written in the new directory, and the slot set to the new
\* path.  An error returns at once; app_config_dir().unwrap() and a
\* poisoned mutex panic.
SaveMigrate ==
    /\ spc = "migrate"
    /\ \E fail \in {"none", "read", "remove", "create_dir_all", "write"},
          mode \in DefaultModes :
        LET settings == Unwrap(s_settings)
            new_config_dir == IF IsSome(settings.lockfile_dir)
                              THEN settings.lockfile_dir
                              ELSE app_config_dir
            new_path == Path(Unwrap(new_config_dir))
            old_path == Unwrap(lockfile_path)
            moving == IsSome(lockfile_path) /\ old_path # new_path
            exists == moving /\ IsSome(files[old_path])
            removed == [files EXCEPT ![old_path] = None]
        IN IF poisoned \/ ~IsSome(new_config_dir)
           THEN /\ poisoned' = TRUE
                /\ spc' = "idle"
                /\ s_settings' = None
                /\ UNCHANGED <<files, lockfile_path>>
           ELSE /\ fail # "none" => exists
                /\ files' = IF ~exists \/ fail \in {"read", "remove"} THEN files
                            ELSE IF fail \in {"create_dir_all", "write"} THEN removed
                            ELSE fs_write(removed, new_path,
                                          Unwrap(files[old_path]).content, mode)
                /\ lockfile_path' = IF moving /\ fail = "none"
                                    THEN Some(new_path)
                                    ELSE lockfile_path
                /\ spc' = IF fail = "none" THEN "persist" ELSE "idle"
                /\ s_settings' = IF fail = "none" THEN s_settings ELSE None
                /\ UNCHANGED poisoned
    /\ UNCHANGED <<store, payload, secret, autolaunch, app_config_dir, uiVars,
                   listenerVars>>

\* What can fail after the migration: store.save() and app.emit().
PersistFailures == {"none", "save", "emit"}

\* state.settings.set("settings", to_value(&settings)), save() and
\* app.emit("settings-updated", &settings): the value is set in the store
\* before save() can fail, and the event is emitted only after it
\* succeeded.  The call returns here, with Ok or the error.
SavePersist(fail) ==
    /\ spc = "persist"
    /\ store' = Some(Settings_to_value(Unwrap(s_settings)))
    /\ spc' = "idle"
    /\ s_settings' = None
    /\ UNCHANGED <<payload, lockfile_path, secret, poisoned, envVars, uiVars,
                   listenerVars>>

(***************************************************************************)
(* The daemon: the listener thread, the main thread's queue, the dialog's  *)
(* commands, and the GUI saving settings that differ in the notification   *)
(* mode.                                                                   *)
(***************************************************************************)
\* What this specification leaves as it is: the process runs on, the
\* poller is not started, and no history of save_settings is kept.
otherVars == <<lifeVars, traceVars, pollVars, fnVars, mutexVars>>

Next ==
    \/ ServerBind /\ UNCHANGED otherVars
    \/ ListenerInit /\ UNCHANGED otherVars
    \/ ListenerWriteLock /\ UNCHANGED otherVars
    \/ ListenerStorePath /\ UNCHANGED otherVars
    \/ ListenerReceive /\ UNCHANGED otherVars
    \/ ListenerLoadSettings /\ UNCHANGED otherVars
    \/ ListenerShowNative /\ UNCHANGED otherVars
    \/ ListenerSubmit /\ UNCHANGED otherVars
    \/ ListenerRespond /\ UNCHANGED otherVars
    \/ RunWorkItem /\ UNCHANGED otherVars
    \/ GetNotificationPayload /\ UNCHANGED otherVars
    \/ CloseNotificationWindow /\ UNCHANGED otherVars
    \/ \E settings \in NativeInputs :
          SaveAutolaunch(settings) /\ UNCHANGED otherVars
    \/ SaveMigrate /\ UNCHANGED otherVars
    \/ \E fail \in PersistFailures : SavePersist(fail) /\ UNCHANGED otherVars

Spec == Init /\ [][Next]_vars

(***************************************************************************)
(* lib.rs: the ways the process ends.                                      *)
(***************************************************************************)
\* The tauri://destroyed listener: the file at the path in the slot is
\* removed if it exists.  lock().unwrap() on a poisoned mutex and
\* remove_file(..).unwrap() on an error panic, and the file stays.
Destroyed ==
    /\ proc = "running"
    /\ proc' = "destroyed"
    /\ \E ok \in BOOLEAN :
          files' = IF ~poisoned /\ IsSome(lockfile_path)
                      /\ IsSome(files[Unwrap(lockfile_path)]) /\ ok
                   THEN [files EXCEPT ![Unwrap(lockfile_path)] = None]
                   ELSE files
    /\ UNCHANGED <<appVars, autolaunch, app_config_dir, uiVars, listenerVars,
                   saveVars, traceVars, pollVars, fnVars, mutexVars>>

\* The tray menu's "quit": std::process::exit(0), which runs no handler.
Quit ==
    /\ proc = "running"
    /\ proc' = "quit"
    /\ UNCHANGED <<appVars, envVars, uiVars, listenerVars, saveVars, traceVars,
                   pollVars, fnVars, mutexVars>>

(***************************************************************************)
(* save_settings with the history of what each call did.                   *)
(***************************************************************************)
Outcome(kind, step) == Some([kind |-> kind, step |-> step])

\* The call starts: the history of the call before it is dropped.
SaveAutolaunchT(settings) ==
    /\ SaveAutolaunch(settings)
    /\ IF spc' = "migrate"
       THEN s_trace' = <<"autolaunch">> /\ s_outcome' = None
       ELSE s_trace' = <<>> /\ s_outcome' = Outcome("err", "autolaunch")
    /\ UNCHANGED s_emitted

SaveMigrateT ==
    /\ SaveMigrate
    /\ IF spc' = "persist"
       THEN s_trace' = Append(s_trace, "migrate") /\ s_outcome' = None
       ELSE /\ s_trace' = s_trace
            /\ s_outcome' = Outcome(IF poisoned' THEN "panic" ELSE "err", "migrate")
    /\ UNCHANGED s_emitted

SavePersistT(fail) ==
    /\ SavePersist(fail)
    /\ s_trace' = CASE fail = "none" -> s_trace \o <<"persist", "emit">>
                    [] fail = "emit" -> Append(s_trace, "persist")
                    [] OTHER -> s_trace
    /\ s_outcome' = CASE fail = "none" -> Outcome("ok", "")
                      [] fail = "emit" -> Outcome("err", "emit")
                      [] OTHER -> Outcome("err", "persist")
    /\ s_emitted' = IF fail = "none" THEN s_settings ELSE s_emitted

\* The Settings values the GUI passes to save_settings in SpecLock: the
\* defaults, with either directory for the lock file and either
\* launch_at_login.
LockInputs ==
    {[Settings_default EXCEPT !.lockfile_dir = d, !.launch_at_login = b] :
        d \in {None, Some("d1")}, b \in BOOLEAN}

(***************************************************************************)
(* The lock file's life: the listener's startup, the GUI saving settings   *)
(* that differ in lockfile_dir and launch_at_login, and the process        *)
(* ending.  No request arrives and the poller is not started.              *)
(***************************************************************************)
lockOtherVars == <<lifeVars, traceVars, pollVars, fnVars, mutexVars>>

NextLock ==
    \/ proc = "running" /\ ServerBind /\ UNCHANGED lockOtherVars
    \/ proc = "running" /\ ListenerInit /\ UNCHANGED lockOtherVars
    \/ proc = "running" /\ ListenerWriteLock /\ UNCHANGED lockOtherVars
    \/ proc = "running" /\ ListenerStorePath /\ UNCHANGED lockOtherVars
    \/ \E settings \in LockInputs :
          proc = "running" /\ SaveAutolaunchT(settings)
                           /\ UNCHANGED <<lifeVars, pollVars, fnVars, mutexVars>>
    \/ proc = "running" /\ SaveMigrateT /\ UNCHANGED <<lifeVars, pollVars, fnVars, mutexVars>>
    \/ \E fail \in PersistFailures :
          proc = "running" /\ SavePersistT(fail) /\ UNCHANGED <<lifeVars, pollVars, fnVars, mutexVars>>
    \/ Destroyed
    \/ Quit

SpecLock == Init /\ [][NextLock]_vars

\* The secret of an earlier run.
StaleSecret == [i \in 1..SecretLen |-> IF i = 1 THEN 56 ELSE 107]

\* A run after one that ended by the tray menu's quit, which removes no
\* lock file: the file the earlier run left is in one of the directories.
InitStale ==
    /\ InitState
    /\ \E d \in Dirs, pid \in Pids, port \in Ports :
          files = [p \in Paths |->
                     IF p = Path(d)
                     THEN Some(File(lock_content(port, pid, StaleSecret), MODE_0600))
                     ELSE None]

SpecStale == InitStale /\ [][NextLock]_vars

(***************************************************************************)
(* scheduler.rs: the poller thread.                                        *)
(***************************************************************************)
\* Ticks the poller makes in SpecPoller.
MaxTicks == 2

\* Numbers of milliseconds are decimal numerals, sequences of the digits
\* 0..9 with no leading zero: a u64 is wider than the integers at hand.
RECURSIVE Numeral(_)
Numeral(n) == IF n < 10 THEN <<n>> ELSE Append(Numeral(n \div 10), n % 10)

\* u64::MAX, 18446744073709551615
U64_MAX == <<1, 8, 4, 4, 6, 7, 4, 4, 0, 7, 3, 7, 0, 9, 5, 5, 1, 6, 1, 5>>

\* The numeral of a sequence of digits: leading zeros dropped.
RECURSIVE Normalise(_)
Normalise(ds) ==
    IF Len(ds) > 1 /\ ds[1] = 0 THEN Normalise(Tail(ds)) ELSE ds

\* a > b, for numerals.
RECURSIVE Exceeds(_, _)
Exceeds(a, b) ==
    IF Len(a) # Len(b) THEN Len(a) > Len(b)
    ELSE IF a = <<>> THEN FALSE
    ELSE IF a[1] # b[1] THEN a[1] > b[1]
    ELSE Exceeds(Tail(a), Tail(b))

\* v.parse::<u64>(): the string is empty, a lone sign, has a byte that is
\* not a digit after an optional '+', or overflows: Err; else its value.
parse_u64(v) ==
    IF v = <<>> THEN Err
    ELSE IF v \in {<<43>>, <<45>>} THEN Err
    ELSE LET src == IF v[1] = 43 THEN Tail(v) ELSE v
         IN IF \E i \in 1..Len(src) : src[i] \notin 48..57 THEN Err
            ELSE LET n == Normalise([i \in 1..Len(src) |-> src[i] - 48])
                 IN IF Exceeds(n, U64_MAX) THEN Err ELSE Ok(n)

\* .unwrap_or(60000)
DEFAULT_INTERVAL_MS == 60000

\* An environment variable: unset is None, and a value is either valid
\* Unicode, given as its bytes, or not.
EnvString(bytes) == Some([unicode |-> TRUE, bytes |-> bytes])

EnvNotUnicode == Some([unicode |-> FALSE, bytes |-> <<255>>])

\* An interval that is 0 when the variable does not give one.
interval_or_zero(e) ==
    IF IsSome(e) /\ Unwrap(e).unicode /\ parse_u64(Unwrap(e).bytes).ok
    THEN Unwrap(parse_u64(Unwrap(e).bytes).val)
    ELSE <<0>>

\* std::env::var(..).ok().and_then(|v| v.parse::<u64>().ok()).unwrap_or(60000)
get_scheduler_interval(e) ==
    IF ~IsSome(e) \/ ~Unwrap(e).unicode THEN Numeral(DEFAULT_INTERVAL_MS)
    ELSE LET r == parse_u64(Unwrap(e).bytes)
         IN IF r.ok THEN Unwrap(r.val) ELSE Numeral(DEFAULT_INTERVAL_MS)

\* The bytes of a string of digits.
Digits(ds) == [i \in 1..Len(ds) |-> 48 + ds[i]]

\* The values of DAYLIT_SCHEDULER_INTERVAL_MS: "500", "invalid", "", "+7",
\* "-5", " 42", "12x", "007", "0", "+", u64::MAX, u64::MAX + 1 and 10^20,
\* the variable unset, and a value that is not Unicode.
EnvValues ==
    {None, EnvNotUnicode,
     EnvString(Digits(<<5, 0, 0>>)),
     EnvString(<<105, 110, 118, 97, 108, 105, 100>>),
     EnvString(<<>>),
     EnvString(<<43, 55>>),
     EnvString(<<45, 53>>),
     EnvString(<<32, 52, 50>>),
     EnvString(<<49, 50, 120>>),
     EnvString(Digits(<<0, 0, 7>>)),
     EnvString(Digits(<<0>>)),
     EnvString(<<43>>),
     EnvString(Digits(U64_MAX)),
     EnvString(Digits([U64_MAX EXCEPT ![20] = 6])),
     EnvString(Digits(<<1>> \o [i \in 1..20 |-> 0]))}

\* The poller with every spawn error a panic.
run_notify_check_unwrap(daylit_path, result) ==
    [program |-> daylit_path, args |-> <<"notify">>, result |-> result,
     returns |-> result # "error"]

\* run_notify_check: runner.run(daylit_path, &["notify"]), whose result is
\* logged, whatever it is.
run_notify_check(daylit_path, result) ==
    [program |-> daylit_path, args |-> <<"notify">>, result |-> result,
     returns |-> TRUE]

\* What runner.run gives: Ok with success, Ok without, or Err.
RunResults == {"success", "failure", "error"}

\* A poller that runs the notifier first and sleeps afterwards.
fire_then_sleep(pc) ==
    CASE pc = "interval" -> "read"
      [] pc = "read" -> "spawn"
      [] pc = "spawn" -> "sleep"
      [] OTHER -> "interval"

\* The body of the loop, in order.
loop_order(pc) ==
    CASE pc = "interval" -> "sleep"
      [] pc = "sleep" -> "read"
      [] pc = "read" -> "spawn"
      [] OTHER -> "interval"

\* A poller that runs "daylit" whatever the settings say.
always_daylit(settings) == "daylit"

\* settings.daylit_path.clone().unwrap_or_else(|| "daylit".to_string())
notifier_program(settings) ==
    IF IsSome(settings.daylit_path) THEN Unwrap(settings.daylit_path) ELSE "daylit"

Event(ev, run) == [ev |-> ev, run |-> run]

\* let interval_ms = get_scheduler_interval()
PollerInterval ==
    /\ ppc = "interval"
    /\ Len(p_log) < 4 * MaxTicks
    /\ p_interval' = Some(get_scheduler_interval(env))
    /\ ppc' = loop_order(ppc)
    /\ p_log' = Append(p_log, Event("interval", None))
    /\ UNCHANGED <<p_path, env, p_slept, p_last>>

\* thread::sleep(Duration::from_millis(interval_ms))
PollerSleep ==
    /\ ppc = "sleep"
    /\ ppc' = loop_order(ppc)
    /\ p_slept' = p_interval
    /\ p_log' = Append(p_log, Event("sleep", None))
    /\ UNCHANGED <<p_interval, p_path, env, p_last>>

\* The block that computes daylit_path from Settings::load.
PollerRead ==
    /\ ppc = "read"
    /\ p_path' = Some(notifier_program(Settings_load(store)))
    /\ ppc' = loop_order(ppc)
    /\ p_log' = Append(p_log, Event("read", None))
    /\ UNCHANGED <<p_interval, env, p_slept, p_last>>

\* run_notify_check(&daylit_path, &runner), and the end of the loop body.
PollerSpawn ==
    /\ ppc = "spawn"
    /\ \E result \in RunResults :
          LET run == run_notify_check(Unwrap(p_path), result)
          IN /\ p_last' = Some(run)
             /\ p_log' = Append(p_log, Event("spawn", Some(run)))
             /\ ppc' = IF run.returns THEN loop_order(ppc) ELSE "exited"
    /\ p_interval' = None
    /\ p_path' = None
    /\ UNCHANGED <<env, p_slept>>

\* DAYLIT_SCHEDULER_INTERVAL_MS is set or removed in the process.
EnvChange ==
    /\ \E v \in EnvValues : v # env /\ env' = v
    /\ UNCHANGED <<ppc, p_interval, p_path, p_log, p_slept, p_last>>

\* The Settings values the GUI passes to save_settings in SpecPoller: the
\* defaults, with and without a path of the notifier.
PollerInputs ==
    {[Settings_default EXCEPT !.daylit_path = d] : d \in {None, Some("/opt/daylit")}}

(***************************************************************************)
(* The poller: its loop, the environment variable changing, and the GUI    *)
(* saving settings that differ in daylit_path.  The listener is not        *)
(* started.                                                                *)
(***************************************************************************)
coreVars == <<appVars, envVars, uiVars, listenerVars, saveVars>>

pollerOtherVars == <<lifeVars, traceVars, pollVars, fnVars, mutexVars>>

NextPoller ==
    \/ PollerInterval /\ UNCHANGED <<coreVars, lifeVars, traceVars, fnVars, mutexVars>>
    \/ PollerSleep /\ UNCHANGED <<coreVars, lifeVars, traceVars, fnVars, mutexVars>>
    \/ PollerRead /\ UNCHANGED <<coreVars, lifeVars, traceVars, fnVars, mutexVars>>
    \/ PollerSpawn /\ UNCHANGED <<coreVars, lifeVars, traceVars, fnVars, mutexVars>>
    \/ EnvChange /\ UNCHANGED <<coreVars, lifeVars, traceVars, fnVars, mutexVars>>
    \/ \E settings \in PollerInputs :
          SaveAutolaunch(settings) /\ UNCHANGED pollerOtherVars
    \/ SaveMigrate /\ UNCHANGED pollerOtherVars
    \/ \E fail \in PersistFailures : SavePersist(fail) /\ UNCHANGED pollerOtherVars

SpecPoller == Init /\ [][NextPoller]_vars

(***************************************************************************)
(* validate_request and Settings::load called on their own, on arguments   *)
(* the daemon need not produce.                                            *)
(***************************************************************************)
\* The longest of the short header values and secrets.
MaxValueLen == 3

\* Header values and secrets: every string of at most MaxValueLen bytes
\* out of "7" and "k", and around each secret of a run: the secret, the
\* secret with its last byte changed, without its last byte, and with one
\* byte more.
Values ==
    UNION {[1..n -> {55, 107}] : n \in 0..MaxValueLen}
    \cup UNION {{sec, [sec EXCEPT ![SecretLen] = 33],
                 SubSeq(sec, 1, SecretLen - 1), Append(sec, 107)} :
                    sec \in Secrets}

\* "X-DAYLIT-SECRET" and "x-dAYLIT-sECRET"
X_DAYLIT_SECRET_UPPER ==
    <<88, 45, 68, 65, 89, 76, 73, 84, 45, 83, 69, 67, 82, 69, 84>>

x_dAYLIT_sECRET ==
    <<120, 45, 100, 65, 89, 76, 73, 84, 45, 115, 69, 67, 82, 69, 84>>

\* "X_Daylit-Secret"
X_Daylit_Secret_underscore ==
    <<88, 95, 68, 97, 121, 108, 105, 116, 45, 83, 101, 99, 114, 101, 116>>

\* The name of the secret header in its casings.
SecretNames ==
    {X_DAYLIT_SECRET, x_daylit_secret, X_DAYLIT_SECRET_UPPER, x_dAYLIT_sECRET}

HeaderNames == SecretNames \cup {X_Daylit_Secret_underscore, CONTENT_TYPE}

\* validate_request(headers, expected_secret) on a header of any name and
\* value, alone or after a Content-Type header, and alone or before a
\* lower-case secret header that has the expected value.
ValidateRequest ==
    /\ fn = "none"
    /\ \E name \in HeaderNames, value \in Values, expected \in Values,
          lead \in {<<>>, <<ContentType>>}, second \in BOOLEAN :
          LET trail == IF second THEN <<Header(x_daylit_secret, expected)>>
                       ELSE <<>>
              headers == lead \o <<Header(name, value)>> \o trail
          IN /\ v_headers' = Some(headers)
             /\ v_expected' = Some(expected)
             /\ v_result' = Some(validate_request(headers, expected))
    /\ fn' = "validate_request"
    /\ d_store' = None
    /\ d_loaded' = None

\* The Settings values whose documents are stored.
StoredSettings ==
    {[font_size |-> fs, launch_at_login |-> ll, lockfile_dir |-> ld,
      daylit_path |-> dp, use_native_notifications |-> un] :
        fs \in {"medium", "large"}, ll \in BOOLEAN, ld \in {None, Some("d1")},
        dp \in {None, Some("/opt/daylit")}, un \in BOOLEAN}

\* The document of s with only the fields of present.
Document(s, present) ==
    JObject([f \in present |-> Settings_to_value(s).fields[f]])

\* Settings::load(store) when the store holds no document, and when it
\* holds one with any subset of the fields.
LoadSettings ==
    /\ fn = "none"
    /\ \/ d_store' = None
       \/ \E s \in StoredSettings, present \in SUBSET SettingsFields :
             d_store' = Some(Document(s, present))
    /\ d_loaded' = Some(Settings_load(d_store'))
    /\ fn' = "Settings::load"
    /\ v_headers' = None
    /\ v_expected' = None
    /\ v_result' = None

fnOtherVars == <<appVars, envVars, uiVars, listenerVars, saveVars, lifeVars,
                 traceVars, pollVars, mutexVars>>

NextFn ==
    \/ ValidateRequest /\ UNCHANGED fnOtherVars
    \/ LoadSettings /\ UNCHANGED fnOtherVars

SpecFn == Init /\ [][NextFn]_vars

(***************************************************************************)
(* The threads as sequences of lock operations: where each thread locks    *)
(* and unlocks a mutex of AppState (a guard is dropped at the end of its   *)
(* statement or block), the calls it makes in between, and where it        *)
(* branches.  Position 0 is the thread's end.                              *)
(***************************************************************************)
Lock(m) == [op |-> "lock", m |-> m, whats |-> {}, to |-> {}, panics |-> FALSE]

Unlock(m) == [op |-> "unlock", m |-> m, whats |-> {}, to |-> {}, panics |-> FALSE]

\* A call, one of whats; panics says whether it is followed by unwrap().
Call(whats, panics) ==
    [op |-> "call", m |-> "", whats |-> whats, to |-> {}, panics |-> panics]

\* The thread goes on at one of the positions of to.
Branch(to) == [op |-> "branch", m |-> "", whats |-> {}, to |-> to, panics |-> FALSE]

\* A listener whose guard of the secret is a local of the loop body and
\* not of the block that computes auth_valid: it is dropped at the end of
\* the iteration.
start_webhook_server_guard_kept ==
    <<Branch({2, 0}), Lock("secret"), Unlock("secret"), Branch({5, 0}),
      Lock("lockfile_path"), Unlock("lockfile_path"),
      Lock("secret"), Call({"validate_request"}, FALSE), Branch({10, 16}),
      Lock("payload"), Unlock("payload"),
      Call({"show", "run_on_main_thread"}, FALSE), Call({"respond"}, FALSE),
      Unlock("secret"), Branch({7}),
      Unlock("secret"), Branch({7})>>

\* server.rs:36-250.  1: the server is bound or the thread returns
\* (39-55); 2-3: the secret is stored (70); 4: the lock file is written
\* or the thread returns (72-110); 5-6: its path is stored (113-116);
\* 7-9: the block that computes auth_valid (126-136); 10: a request that
\* is refused, unreadable or unparsable is done with (138-153, 241-247);
\* 11-12: the payload is stored (155-158); 13: the native notification or
\* the hand-off (169-235); 14: the response (237-240).
start_webhook_server ==
    <<Branch({2, 0}), Lock("secret"), Unlock("secret"), Branch({5, 0}),
      Lock("lockfile_path"), Unlock("lockfile_path"),
      Lock("secret"), Call({"validate_request"}, FALSE), Unlock("secret"),
      Branch({11, 7}),
      Lock("payload"), Unlock("payload"),
      Call({"show", "run_on_main_thread"}, FALSE), Call({"respond"}, FALSE),
      Branch({7})>>

\* commands.rs:12-56.  1-2: autolaunch, whose error is returned (16-21);
\* 3-6: the block of the lock file's migration, with app_config_dir()
\* .unwrap() and the file operations (24-45); 7: their error is returned,
\* the guard being dropped; 8-9: store and emit (48-55).
save_settings ==
    <<Call({"autolaunch"}, FALSE), Branch({3, 1}),
      Lock("lockfile_path"), Call({"app_config_dir"}, TRUE),
      Call({"migrate"}, FALSE), Unlock("lockfile_path"), Branch({8, 1}),
      Call({"persist"}, FALSE), Call({"emit"}, FALSE), Branch({1})>>

\* commands.rs:59-61
get_notification_payload_locks ==
    <<Lock("payload"), Unlock("payload"), Branch({1})>>

\* lib.rs:319-326: the guard in the condition of the if let lives to the
\* end of the if let; remove_file(path).unwrap() is inside.
destroyed_handler ==
    <<Lock("lockfile_path"), Call({"remove_file"}, TRUE),
      Unlock("lockfile_path"), Branch({0})>>

\* scheduler.rs:65-84
start_scheduler_thread ==
    <<Call({"sleep"}, FALSE), Call({"Settings::load"}, FALSE),
      Call({"spawn"}, FALSE), Branch({1})>>

Program(t) ==
    CASE t = "listener" -> start_webhook_server
      [] t = "save_settings" -> save_settings
      [] t = "get_notification_payload" -> get_notification_payload_locks
      [] t = "destroyed" -> destroyed_handler
      [] OTHER -> start_scheduler_thread

\* Where a thread is after a panic: a command can be invoked again, the
\* other threads are gone.
AfterPanic(t) ==
    IF t \in {"save_settings", "get_notification_payload"} THEN 1 ELSE 0

\* One operation of thread t.  lock() waits while the mutex is held; on a
\* poisoned mutex it returns an error, which every caller turns into a
\* panic (unwrap, expect).  A panic drops the guards the thread holds and
\* poisons their mutexes.
MutexStep(t) ==
    /\ mx.pc[t] # 0
    /\ LET pc == mx.pc[t]
           o == Program(t)[pc]
       IN CASE o.op = "lock" ->
                 /\ \A u \in Threads : o.m \notin mx.held[u]
                 /\ mx' = IF o.m \in mx.poisoned
                          THEN [mx EXCEPT !.pc[t] = AfterPanic(t)]
                          ELSE [mx EXCEPT !.pc[t] = pc + 1,
                                          !.held[t] = @ \cup {o.m}]
            [] o.op = "unlock" ->
                 mx' = [mx EXCEPT !.pc[t] = pc + 1, !.held[t] = @ \ {o.m}]
            [] o.op = "call" ->
                 \E what \in o.whats, panic \in {FALSE, o.panics} :
                    mx' = [mx EXCEPT
                             !.pc[t] = IF panic THEN AfterPanic(t) ELSE pc + 1,
                             !.held[t] = IF panic THEN {} ELSE @,
                             !.poisoned = IF panic THEN @ \cup mx.held[t] ELSE @,
                             !.last = [thread |-> t, what |-> what,
                                       held |-> mx.held[t]]]
            [] OTHER ->
                 \E to \in o.to : mx' = [mx EXCEPT !.pc[t] = to]

mutexOtherVars == <<appVars, envVars, uiVars, listenerVars, saveVars, lifeVars,
                    traceVars, pollVars, fnVars>>

NextMutex ==
    \/ MutexStep("listener") /\ UNCHANGED mutexOtherVars
    \/ MutexStep("save_settings") /\ UNCHANGED mutexOtherVars
    \/ MutexStep("get_notification_payload") /\ UNCHANGED mutexOtherVars
    \/ MutexStep("destroyed") /\ UNCHANGED mutexOtherVars
    \/ MutexStep("poller") /\ UNCHANGED mutexOtherVars

SpecMutex == Init /\ [][NextMutex]_vars

(***************************************************************************)
(* What the properties say of a request, stated without the listener's     *)
(* own functions.                                                          *)
(***************************************************************************)
\* The header is named X-Daylit-Secret, in any casing.
IsSecretHeader(h) ==
    /\ Len(h.field) = Len(x_daylit_secret)
    /\ \A j \in 1..Len(h.field) :
          h.field[j] \in {X_DAYLIT_SECRET[j], x_daylit_secret[j]}

\* The positions of the headers named X-Daylit-Secret.
SecretHeaders(request) ==
    {i \in 1..Len(request.headers) : IsSecretHeader(request.headers[i])}

\* The secret header is missing, or the first one's bytes are not the
\* secret's.
Unauthenticated(request, sec) ==
    LET hs == SecretHeaders(request)
    IN \/ hs = {}
       \/ request.headers[CHOOSE i \in hs : \A j \in hs : i <= j].value # sec

\* The body is {text: string, duration_ms: number}, the number one a u32
\* can hold; it may have other fields.
WellFormed(json) ==
    /\ json.kind = "object"
    /\ "text" \in DOMAIN json.fields
    /\ "duration_ms" \in DOMAIN json.fields
    /\ json.fields["text"].t = "string"
    /\ json.fields["duration_ms"].t = "number"
    /\ ~json.fields["duration_ms"].wide
    /\ json.fields["duration_ms"].n >= 0

\* An authenticated POST whose body was read and is well-formed.
Acceptable(request, sec) ==
    /\ request.method = "POST"
    /\ ~Unauthenticated(request, sec)
    /\ request.body.readable
    /\ WellFormed(request.body.json)

\* The payload such a request carries.
PayloadOf(request) ==
    [text |-> request.body.json.fields["text"].s,
     duration_ms |-> request.body.json.fields["duration_ms"].n]

\* The step in which the listener takes a request.
Takes == nreq' = nreq + 1

TheRequest == Unwrap(cur.request)

\* The statuses of the responses the listener gave the request.
Statuses(c) == [i \in 1..Len(c.responses) |-> c.responses[i].response.status]

\* The listener is done with the request it took last.
Handled == IsSome(cur.request) /\ cur.done

C2_UnauthorizedIs401 ==
    [][(Takes /\ Unwrap(cur'.request).method = "POST"
              /\ Unauthenticated(Unwrap(cur'.request), Unwrap(secret))) =>
          /\ Len(cur'.responses) = 1
          /\ cur'.responses[1].response = Response(401, "Unauthorized")
          /\ payload' = payload
          /\ mainQueue' = mainQueue
          /\ dialogs' = dialogs
          /\ cur'.submits = 0
          /\ cur'.natives = <<>>
          /\ cur'.done
          /\ lpc' = "wait"]_vars

\* A POST that carries a prefix of the secret and a well-formed body has
\* been answered, a payload having been accepted before.
C2_Witness ==
    /\ Handled
    /\ TheRequest.method = "POST"
    /\ TheRequest.body = StandUp
    /\ Unauthenticated(TheRequest, Unwrap(secret))
    /\ SecretHeaders(TheRequest) # {}
    /\ Statuses(cur) = <<401>>
    /\ IsSome(payload)

C4_ZeroDurationIs400 ==
    [][(Takes /\ Acceptable(Unwrap(cur'.request), Unwrap(secret))
              /\ PayloadOf(Unwrap(cur'.request)).duration_ms = 0) =>
          /\ Statuses(cur') = <<400>>
          /\ payload' = payload
          /\ mainQueue' = mainQueue]_vars

(***************************************************************************)
(* C5.  As claimed: an authenticated POST whose body is well-formed and    *)
(* has a text of zero length is answered 400, and the step that takes it   *)
(* leaves the last-payload slot and the main thread's queue as they were.  *)
(* The code does not look at the text.                                     *)
(***************************************************************************)
C5_EmptyTextIs400 ==
    [][(Takes /\ Acceptable(Unwrap(cur'.request), Unwrap(secret))
              /\ PayloadOf(Unwrap(cur'.request)).text = "") =>
          /\ Statuses(cur') = <<400>>
          /\ payload' = payload
          /\ mainQueue' = mainQueue]_vars

(***************************************************************************)
(* C6.  A request whose method is not POST is ignored, with or without the *)
(* secret: the step that takes it gives no response, leaves the            *)
(* last-payload slot, the dialog, the main thread's queue and what the     *)
(* dialog shows as they were, shows no native notification, and ends with  *)
(* the listener waiting for the next request.                              *)
(***************************************************************************)
C6_NonPostIsIgnored ==
    [][(Takes /\ Unwrap(cur'.request).method # "POST") =>
          /\ cur'.responses = <<>>
          /\ cur'.natives = <<>>
          /\ cur'.submits = 0
          /\ payload' = payload
          /\ dialogs' = dialogs
          /\ mainQueue' = mainQueue
          /\ shown' = shown
          /\ cur'.done
          /\ lpc' = "wait"]_vars

\* A GET that carries the secret and a well-formed body has been ignored,
\* a payload having been accepted before and the dialog being open.
C6_Witness ==
    /\ Handled
    /\ TheRequest.method = "GET"
    /\ ~Unauthenticated(TheRequest, Unwrap(secret))
    /\ TheRequest.body = StandUp
    /\ cur.responses = <<>>
    /\ IsSome(payload)
    /\ Len(dialogs) = 1
    /\ lpc = "wait"

(***************************************************************************)
(* C7.  In every reachable state at most one window with the label         *)
(* notification_dialog exists.                                             *)
(***************************************************************************)
C7_AtMostOneDialog ==
    Cardinality({i \in 1..Len(dialogs) :
                    dialogs[i].label = "notification_dialog"}) <= 1

\* The dialog is open, a work item has updated it, and another is queued.
C7_Witness ==
    /\ Len(dialogs) = 1
    /\ IsSome(shown)
    /\ Unwrap(shown).via = "update_notification"
    /\ mainQueue # <<>>

\* The step in which the main thread runs a work item.
RunsWorkItem == mainQueue # <<>> /\ mainQueue' = Tail(mainQueue)

(***************************************************************************)
(* C8.  As claimed: a work item that runs while no dialog exists creates   *)
(* the dialog; one that runs while the dialog exists creates none and      *)
(* sends it update_notification with its payload's text and duration_ms.   *)
(***************************************************************************)
C8_WorkItemCreatesOrUpdates ==
    [][RunsWorkItem =>
          IF dialogs = <<>>
          THEN dialogs' = <<NewDialog>>
          ELSE /\ dialogs' = dialogs
               /\ shown' = Some([via |-> "update_notification",
                                 payload |-> [text |-> Head(mainQueue).text,
                                              duration_ms |-> Head(mainQueue).duration_ms],
                                 seq |-> Head(mainQueue).seq])]_vars

(***************************************************************************)
(* C8, amended.  A work item that runs while no dialog exists creates the  *)
(* dialog, or, when the main window or the primary monitor is not found or *)
(* the build fails, creates nothing; either way it sends no event.  One    *)
(* that runs while the dialog exists creates none and sends it             *)
(* update_notification with its payload's text and duration_ms.            *)
(***************************************************************************)
C8_WorkItemCreatesUnlessBuildFails ==
    [][RunsWorkItem =>
          IF dialogs = <<>>
          THEN /\ shown' = shown
               /\ \/ dialogs' = <<NewDialog>> /\ built' = "ok"
                  \/ dialogs' = <<>> /\ built' = "failed"
          ELSE /\ dialogs' = dialogs
               /\ built' = built
               /\ shown' = Some([via |-> "update_notification",
                                 payload |-> [text |-> Head(mainQueue).text,
                                              duration_ms |-> Head(mainQueue).duration_ms],
                                 seq |-> Head(mainQueue).seq])]_vars

\* A dialog was built and updated with "Stand up" for 5000 ms, then closed,
\* and the next work item failed to build one.
C8_Witness ==
    /\ built = "failed"
    /\ dialogs = <<>>
    /\ IsSome(shown)
    /\ Unwrap(shown).via = "update_notification"
    /\ Unwrap(shown).payload = [text |-> "Stand up", duration_ms |-> 5000]

(***************************************************************************)
(* C9.  As claimed: what the dialog is shown, by reading the last-payload  *)
(* slot when its page loads or by update_notification, never goes from a   *)
(* payload to one the listener accepted before it.                         *)
(***************************************************************************)
C9_NeverNewerThenOlder ==
    [][(IsSome(shown) /\ IsSome(shown')) =>
          Unwrap(shown').seq >= Unwrap(shown).seq]_vars

(***************************************************************************)
(* C10.  When the settings loaded for an accepted payload have             *)
(* use_native_notifications true, then by the time the listener answers,   *)
(* it has invoked the native notification exactly once, with the title     *)
(* "Daylit" and the payload's text as body and nothing of duration_ms, and *)
(* has submitted no work item for the payload: none is queued.             *)
(***************************************************************************)
C10_NativeModeShowsOnce ==
    (IsSome(cur.request) /\ cur.native = Some(TRUE)
        /\ (lpc = "respond" \/ cur.done)) =>
        /\ Len(cur.natives) = 1
        /\ cur.natives[1].notification =
              [title |-> "Daylit", body |-> PayloadOf(TheRequest).text]
        /\ cur.submits = 0
        /\ \A i \in 1..Len(mainQueue) : mainQueue[i].seq # nacc

\* The second accepted payload has been handled in native mode, the work
\* item of the first still being queued.
C10_Witness ==
    /\ Handled
    /\ cur.native = Some(TRUE)
    /\ Len(cur.natives) = 1
    /\ Statuses(cur) = <<200>>
    /\ nacc = 2
    /\ Len(mainQueue) = 1

(***************************************************************************)
(* C11.  Once an authenticated POST has parsed, whether the native         *)
(* notification or run_on_main_thread then succeeds or fails: the          *)
(* last-payload slot holds its payload, the listener thread has not        *)
(* returned, nothing is answered before the collaborator was called, and   *)
(* the one answer is 200 "Notification triggered", after which the         *)
(* listener waits for the next request.                                    *)
(***************************************************************************)
C11_CollaboratorFailureStill200 ==
    (IsSome(cur.request) /\ Acceptable(TheRequest, Unwrap(secret))) =>
        /\ lpc # "exited"
        /\ payload = Some(Tagged(PayloadOf(TheRequest), nacc))
        /\ IF cur.done
           THEN /\ Len(cur.responses) = 1
                /\ cur.responses[1].response = Response(200, "Notification triggered")
                /\ lpc = "wait"
           ELSE cur.responses = <<>>

\* The second accepted payload was answered 200 after its native
\* notification failed to show; nothing is queued and no dialog exists.
C11_Witness ==
    /\ Handled
    /\ nacc = 2
    /\ Len(cur.natives) = 1
    /\ ~cur.natives[1].shown
    /\ Statuses(cur) = <<200>>
    /\ mainQueue = <<>>
    /\ dialogs = <<>>

(***************************************************************************)
(* What the properties say of the lock file.                               *)
(***************************************************************************)
\* The directory the settings configure for the lock file: lockfile_dir,
\* else the app-config directory; none when that cannot be resolved.
DirOf(settings) ==
    IF IsSome(settings.lockfile_dir) THEN settings.lockfile_dir ELSE app_config_dir

\* The directory configured by the settings in the store.
ConfiguredDir == DirOf(Settings_load(store))

\* The process has ended.
Stopped == proc # "running"

(***************************************************************************)
(* C12.  As claimed: once the process has ended, by the destroyed handler  *)
(* or by the tray menu's quit, no daylit-tray.lock exists at the path the  *)
(* stored settings configure.  (Every lock file of the model is written by *)
(* this daemon.)                                                           *)
(***************************************************************************)
C12_NoLockfileAfterShutdown ==
    (Stopped /\ IsSome(ConfiguredDir)) => files[Path(Unwrap(ConfiguredDir))] = None

\* The step in which a save_settings call that changes lockfile_dir
\* returns Ok.
SaveReturnsOkWithNewDir ==
    /\ spc = "persist"
    /\ s_outcome' = Outcome("ok", "")
    /\ Settings_load(store).lockfile_dir # Unwrap(s_settings).lockfile_dir

(***************************************************************************)
(* C13.  As claimed: when a save_settings call that changes lockfile_dir   *)
(* returns Ok, the lock file exists in the new directory with the content  *)
(* port|pid|secret of the running listener, and does not exist in the old  *)
(* directory.                                                              *)
(***************************************************************************)
C13_LockfileMovedOnDirChange ==
    [][(SaveReturnsOkWithNewDir
          /\ IsSome(DirOf(Settings_load(store)))
          /\ IsSome(DirOf(Unwrap(s_settings)))) =>
          LET old == Path(Unwrap(DirOf(Settings_load(store))))
              new == Path(Unwrap(DirOf(Unwrap(s_settings))))
          IN /\ files'[old] = None
             /\ IsSome(files'[new])
             /\ IsSome(l.port) /\ IsSome(secret)
             /\ \E pid \in Pids :
                   Unwrap(files'[new]).content =
                       <<Unwrap(l.port), pid, Unwrap(secret)>>]_vars

(***************************************************************************)
(* C14.  As claimed: whenever a file exists at the path held in the        *)
(* lockfile-path slot, its mode is 0600.                                   *)
(***************************************************************************)
C14_LockfileModeIs0600 ==
    (IsSome(lockfile_path) /\ IsSome(files[Unwrap(lockfile_path)])) =>
        Unwrap(files[Unwrap(lockfile_path)]).mode = 384

\* The steps of save_settings, in the order of the claim.
SaveSteps == <<"autolaunch", "migrate", "persist", "emit">>

\* A step of a save_settings call.
SaveStep == s_outcome' # s_outcome \/ s_trace' # s_trace

\* What the steps after a failed one would have changed is as it was.
LaterStepsNotRun(step) ==
    /\ s_emitted' = s_emitted
    /\ step \in {"autolaunch", "migrate"} => store' = store
    /\ step = "autolaunch" => files' = files /\ lockfile_path' = lockfile_path

\* What the steps before a failed one did is kept by the step that fails.
EarlierStepsKept(step) ==
    /\ step # "autolaunch" =>
          /\ autolaunch' = autolaunch
          /\ autolaunch = Unwrap(s_settings).launch_at_login
    /\ step \in {"persist", "emit"} =>
          files' = files /\ lockfile_path' = lockfile_path

(***************************************************************************)
(* C15.  As claimed: a save_settings call completes its steps in the order *)
(* auto-launch, lock file migration, persist, emit; it ends either with Ok *)
(* after all four, auto-launch then being as requested, the store holding  *)
(* the settings and settings-updated carrying them, or with the error of   *)
(* the first step that failed, no later step having run and what the       *)
(* earlier steps did being kept.                                           *)
(***************************************************************************)
C15_SaveStepsInOrderOrError ==
    [][SaveStep =>
          /\ Len(s_trace') <= Len(SaveSteps)
          /\ s_trace' = SubSeq(SaveSteps, 1, Len(s_trace'))
          /\ IsSome(s_outcome') =>
                LET o == Unwrap(s_outcome')
                IN /\ o.kind \in {"ok", "err"}
                   /\ o.kind = "ok" =>
                         /\ s_trace' = SaveSteps
                         /\ autolaunch' = Unwrap(s_settings).launch_at_login
                         /\ store' = Some(Settings_to_value(Unwrap(s_settings)))
                         /\ s_emitted' = s_settings
                   /\ o.kind = "err" =>
                         /\ Len(s_trace') < Len(SaveSteps)
                         /\ o.step = SaveSteps[Len(s_trace') + 1]
                         /\ LaterStepsNotRun(o.step)
                         /\ EarlierStepsKept(o.step)]_vars

(***************************************************************************)
(* C16.  The step after the listener has drawn the secret either leaves    *)
(* the lock file at the configured path with mode 0600 and goes on to      *)
(* store the path, or, the directory not being resolved or created, the    *)
(* file not written or its mode not set, ends the listener thread.  A      *)
(* listener thread that has ended stays ended, has taken no request and    *)
(* stored no payload, and has left the lockfile-path slot unset, and the   *)
(* process runs on.                                                        *)
(***************************************************************************)
C16_StartupFailureDisablesListener ==
    [][/\ (lpc = "lockfile" /\ lpc' # "lockfile") =>
             LET dir == DirOf(Unwrap(l.settings))
             IN IF /\ IsSome(dir)
                   /\ IsSome(files'[Path(Unwrap(dir))])
                   /\ Unwrap(files'[Path(Unwrap(dir))]).mode = 384
                THEN lpc' = "store" /\ l'.path = Some(Path(Unwrap(dir)))
                ELSE lpc' = "exited"
       /\ lpc = "exited" => lpc' = "exited"
       /\ lpc' = "exited" =>
             /\ lockfile_path' = None
             /\ nreq' = 0
             /\ payload' = None
             /\ cur' = NoRequest
             /\ proc' = "running"]_vars

\* The listener has ended because set_permissions failed, which left the
\* lock file with its default mode, and a save_settings call is about to
\* persist its settings.
C16_Witness ==
    /\ lpc = "exited"
    /\ IsSome(secret)
    /\ IsSome(files[Path("appcfg")])
    /\ Unwrap(files[Path("appcfg")]).mode # 384
    /\ lockfile_path = None
    /\ spc = "persist"

(***************************************************************************)
(* What the properties say of the poller.                                  *)
(***************************************************************************)
\* What the poller does in one iteration, in order.
Iteration == <<"interval", "sleep", "read", "spawn">>

\* The entries of the log that are of one kind.
Entries(ev) == {i \in 1..Len(p_log) : p_log[i].ev = ev}

\* A step of the poller thread that leaves pc.
PollerLeaves(pc) == ppc = pc /\ ppc' # pc

(***************************************************************************)
(* C17.  What the poller has done is always a prefix of the repetition of: *)
(* read the interval, sleep, read the settings, run the notifier.  So its  *)
(* first action after reading the interval is a sleep, and every run of    *)
(* the notifier comes right after a read of the settings that comes right  *)
(* after a sleep.                                                          *)
(***************************************************************************)
C17_SleepBeforeNotifier ==
    /\ \A i \in 1..Len(p_log) : p_log[i].ev = Iteration[((i - 1) % 4) + 1]
    /\ \A i \in Entries("spawn") :
          i > 2 /\ p_log[i - 1].ev = "read" /\ p_log[i - 2].ev = "sleep"
    /\ Len(p_log) > 1 => p_log[2].ev = "sleep"

\* The poller has made two whole iterations.
C17_Witness ==
    /\ Len(p_log) = 8
    /\ Cardinality(Entries("sleep")) = 2
    /\ Cardinality(Entries("spawn")) = 2

\* A step of the poller thread.
PollerStep == PollerInterval \/ PollerSleep \/ PollerRead \/ PollerSpawn

(***************************************************************************)
(* C18.  The poller thread never ends: it is always at one of the four     *)
(* steps of its loop, whatever the notifier's runs gave (success, a        *)
(* non-zero exit, a spawn error), and its next step can always be taken    *)
(* (as long as the model lets it make another tick).                       *)
(***************************************************************************)
C18_PollerNeverStops ==
    /\ ppc \in {"interval", "sleep", "read", "spawn"}
    /\ (ppc # "interval" \/ Len(p_log) < 4 * MaxTicks) => ENABLED PollerStep
    /\ \A i \in Entries("spawn") :
          /\ Unwrap(p_log[i].run).returns
          /\ i < Len(p_log) => p_log[i + 1].ev = "interval"

\* The notifier could not be spawned on the first tick and was run again
\* on the second, when it exited with a failure; the poller is back at
\* the head of its loop.
C18_Witness ==
    /\ Len(p_log) = 8
    /\ Unwrap(p_log[4].run).result = "error"
    /\ Unwrap(p_log[8].run).result = "failure"
    /\ ppc = "interval"

\* The notifier path in the stored settings document, or "daylit".
StoredNotifier ==
    LET f == Unwrap(store).fields
    IN IF f["daylit_path"].t = "string" THEN f["daylit_path"].s ELSE "daylit"

(***************************************************************************)
(* C19.  On every tick, after the sleep, the poller takes the notifier     *)
(* path from the settings as they are stored at that moment, or "daylit"   *)
(* when they have none, and then runs exactly one subprocess: that program *)
(* with the arguments ["notify"].                                          *)
(***************************************************************************)
C19_OneNotifierRunPerTick ==
    [][/\ PollerLeaves("read") =>
             /\ p_log # <<>> /\ p_log[Len(p_log)].ev = "sleep"
             /\ p_path' = Some(StoredNotifier)
       /\ PollerLeaves("spawn") =>
             /\ IsSome(p_last')
             /\ Unwrap(p_last').program = Unwrap(p_path)
             /\ Unwrap(p_last').args = <<"notify">>
             /\ p_log' = Append(p_log, [ev |-> "spawn", run |-> p_last'])
       /\ Cardinality({i \in 1..Len(p_log') : p_log'[i].ev = "spawn"})
             = Len(p_log') \div 4]_vars

\* The first tick ran "daylit" and the second "/opt/daylit", a path saved
\* in between.
C19_Witness ==
    /\ Len(p_log) = 8
    /\ Unwrap(p_log[4].run).program = "daylit"
    /\ Unwrap(p_log[8].run).program = "/opt/daylit"
    /\ Unwrap(p_log[8].run).args = <<"notify">>

\* The interval for each value of DAYLIT_SCHEDULER_INTERVAL_MS.
IntervalTable ==
    {<<None, <<6, 0, 0, 0, 0>>>>,
     <<EnvNotUnicode, <<6, 0, 0, 0, 0>>>>,
     <<EnvString(<<53, 48, 48>>), <<5, 0, 0>>>>,
     <<EnvString(<<105, 110, 118, 97, 108, 105, 100>>), <<6, 0, 0, 0, 0>>>>,
     <<EnvString(<<>>), <<6, 0, 0, 0, 0>>>>,
     <<EnvString(<<43, 55>>), <<7>>>>,
     <<EnvString(<<45, 53>>), <<6, 0, 0, 0, 0>>>>,
     <<EnvString(<<32, 52, 50>>), <<6, 0, 0, 0, 0>>>>,
     <<EnvString(<<49, 50, 120>>), <<6, 0, 0, 0, 0>>>>,
     <<EnvString(<<48, 48, 55>>), <<7>>>>,
     <<EnvString(<<48>>), <<0>>>>,
     <<EnvString(<<43>>), <<6, 0, 0, 0, 0>>>>,
     <<EnvString(Digits(U64_MAX)), U64_MAX>>,
     <<EnvString(Digits([U64_MAX EXCEPT ![20] = 6])), <<6, 0, 0, 0, 0>>>>,
     <<EnvString(<<49>> \o [i \in 1..20 |-> 48]), <<6, 0, 0, 0, 0>>>>}

ExpectedInterval(e) == (CHOOSE row \in IntervalTable : row[1] = e)[2]

(***************************************************************************)
(* C20.  At the head of every iteration, and nowhere else, the poller      *)
(* reads DAYLIT_SCHEDULER_INTERVAL_MS as it is then: the interval is the   *)
(* variable's value when it is set to an unsigned decimal integer that a   *)
(* u64 holds, and 60000 when it is unset, not Unicode, or anything else;   *)
(* the sleep that follows lasts that interval.                             *)
(***************************************************************************)
C20_IntervalReadOncePerTick ==
    [][/\ PollerLeaves("interval") => p_interval' = Some(ExpectedInterval(env))
       /\ ~PollerLeaves("interval") =>
             (p_interval' = p_interval \/ p_interval' = None)
       /\ PollerLeaves("sleep") => p_slept' = p_interval /\ IsSome(p_interval)
       /\ Cardinality({i \in 1..Len(p_log') : p_log'[i].ev = "interval"})
             = (Len(p_log') + 3) \div 4]_vars

\* The first tick slept the default 60000 ms; the variable was then set
\* to "500", which the second tick has read.
C20_Witness ==
    /\ Len(p_log) = 5
    /\ p_slept = Some(<<6, 0, 0, 0, 0>>)
    /\ p_interval = Some(<<5, 0, 0>>)
    /\ env = EnvString(<<53, 48, 48>>)

(***************************************************************************)
(* What the properties say of the pure functions.                          *)
(***************************************************************************)
\* The first header of the list whose name is a casing of X-Daylit-Secret.
SecretHeaderOf(headers) ==
    LET S == {i \in 1..Len(headers) : headers[i].field \in SecretNames}
    IN IF S = {} THEN None
       ELSE Some(headers[CHOOSE i \in S : \A j \in S : i <= j])

(***************************************************************************)
(* C21.  Whenever validate_request finds a secret header, what it returns  *)
(* is whether that header's value and the expected secret are the same     *)
(* bytes, whether the value is shorter than, as long as, or longer than    *)
(* the secret.                                                             *)
(***************************************************************************)
C21_ConstantTimeIsByteEquality ==
    (fn = "validate_request" /\ IsSome(SecretHeaderOf(Unwrap(v_headers)))) =>
        Unwrap(v_result)
            = (Unwrap(SecretHeaderOf(Unwrap(v_headers))).value = Unwrap(v_expected))

\* The header's value is the secret and one more byte, and was refused.
C21_Witness ==
    /\ fn = "validate_request"
    /\ IsSome(SecretHeaderOf(Unwrap(v_headers)))
    /\ LET value == Unwrap(SecretHeaderOf(Unwrap(v_headers))).value
           expected == Unwrap(v_expected)
       IN /\ Len(expected) = SecretLen
          /\ Len(value) = SecretLen + 1
          /\ SubSeq(value, 1, SecretLen) = expected
    /\ Unwrap(v_result) = FALSE

\* The list with every casing of the secret header's name made canonical.
Canonical(headers) ==
    [i \in 1..Len(headers) |->
        IF headers[i].field \in SecretNames
        THEN Header(X_DAYLIT_SECRET, headers[i].value)
        ELSE headers[i]]

(***************************************************************************)
(* C22.  validate_request returns for a header list what it returns for    *)
(* the same list with the secret header named X-Daylit-Secret, whatever    *)
(* the casing of that name in the list.                                    *)
(***************************************************************************)
C22_HeaderNameIgnoresCase ==
    fn = "validate_request" =>
        Unwrap(v_result)
            = validate_request(Canonical(Unwrap(v_headers)), Unwrap(v_expected))

\* The only header is named x-daylit-secret, has the secret of a run as
\* its value, and was accepted.
C22_Witness ==
    /\ fn = "validate_request"
    /\ Unwrap(v_headers) = <<Header(x_daylit_secret, Unwrap(v_expected))>>
    /\ Unwrap(v_expected) \in Secrets
    /\ Unwrap(v_result) = TRUE

\* The documented defaults.
DocumentedDefaults ==
    [font_size |-> "medium", launch_at_login |-> FALSE, lockfile_dir |-> None,
     daylit_path |-> None, use_native_notifications |-> FALSE]

\* The value a document stores for a field.
StoredValue(doc, f) ==
    LET v == doc.fields[f]
    IN CASE v.t = "string" /\ f = "font_size" -> v.s
         [] v.t = "string" -> Some(v.s)
         [] v.t = "bool" -> v.b
         [] OTHER -> None

(***************************************************************************)
(* C23.  Settings::load gives the defaults when the store holds no         *)
(* document; when it holds one, every field the document has is loaded     *)
(* with its stored value and every field it lacks with its default.        *)
(***************************************************************************)
C23_MissingFieldsLoadAsDefaults ==
    fn = "Settings::load" =>
        IF ~IsSome(d_store) THEN Unwrap(d_loaded) = DocumentedDefaults
        ELSE \A f \in SettingsFields :
                Unwrap(d_loaded)[f]
                    = IF f \in DOMAIN Unwrap(d_store).fields
                      THEN StoredValue(Unwrap(d_store), f)
                      ELSE DocumentedDefaults[f]

\* A document with a font size and a notifier path and nothing else.
C23_Witness ==
    /\ fn = "Settings::load"
    /\ IsSome(d_store)
    /\ DOMAIN Unwrap(d_store).fields = {"font_size", "daylit_path"}
    /\ Unwrap(d_loaded) =
          [font_size |-> "large", launch_at_login |-> FALSE,
           lockfile_dir |-> None, daylit_path |-> Some("/opt/daylit"),
           use_native_notifications |-> FALSE]

(***************************************************************************)
(* What the properties say of the lock file and the secret.                *)
(***************************************************************************)
\* The listener has completed its startup and the process runs.
StartupCompleted == lpc \notin {"bind", "init", "lockfile", "store", "exited"}

(***************************************************************************)
(* C24.  As claimed: whenever the process runs, the listener has completed *)
(* its startup and no save_settings call is in progress, the slot holds    *)
(* <dir>/daylit-tray.lock for the directory the stored settings configure, *)
(* and a file exists there.                                                *)
(***************************************************************************)
C24_SlotFollowsPersistedSettings ==
    (proc = "running" /\ StartupCompleted /\ spc = "idle") =>
        /\ IsSome(ConfiguredDir)
        /\ lockfile_path = Some(Path(Unwrap(ConfiguredDir)))
        /\ IsSome(files[Unwrap(lockfile_path)])

\* The lock file at the path in the slot, if the slot is set and the file
\* exists.
SlotFile ==
    IF IsSome(lockfile_path) THEN files[Unwrap(lockfile_path)] ELSE None

(***************************************************************************)
(* C25.  The secret in memory, once set, is never set again, and whenever  *)
(* a file exists at the path in the slot, the third field of its content   *)
(* is the secret in memory.                                                *)
(***************************************************************************)
C25_SecretSetOnceAndInLockfile ==
    [][/\ IsSome(secret) => secret' = secret
       /\ IsSome(SlotFile') =>
             IsSome(secret') /\ Unwrap(SlotFile').content[3] = Unwrap(secret')]_vars

(***************************************************************************)
(* What the properties say of the order of the listener's steps.           *)
(***************************************************************************)
\* The listener calls run_on_main_thread.
Submits == lpc = "custom" /\ lpc' # "custom"

\* The listener sends the 200 response.
Answers200 == lpc = "respond" /\ lpc' # "respond"

TakesUnreadable ==
    /\ Takes
    /\ ~Unwrap(cur'.request).body.readable
    /\ Unwrap(cur'.request).method = "POST"
    /\ ~Unauthenticated(Unwrap(cur'.request), Unwrap(secret))

\* The listener sends a response and the sending fails.
SendFails ==
    /\ Len(cur'.responses) = 1
    /\ cur.responses # cur'.responses
    /\ ~cur'.responses[1].sent

\* The listener is done with a POST to which it gave no response, or one
\* that could not be sent.
Abandoned ==
    /\ Handled
    /\ cur.responses = <<>> \/ ~cur.responses[1].sent
    /\ TheRequest.method = "POST"

(***************************************************************************)
(* C27.  The step in which the body of a request cannot be read leaves the *)
(* last-payload slot and the main thread's queue as they were, makes no    *)
(* hand-off and gives no response; after it, and after a step in which     *)
(* sending a 401, 400 or 200 response fails, the listener is done with the *)
(* request and waits for the next one, which it can take.                  *)
(***************************************************************************)
C27_IoErrorsAbandonTheRequest ==
    [][/\ TakesUnreadable =>
             /\ payload' = payload
             /\ mainQueue' = mainQueue
             /\ cur'.submits = 0 /\ cur'.natives = <<>>
             /\ cur'.responses = <<>>
       /\ (TakesUnreadable \/ SendFails) => cur'.done /\ lpc' = "wait"
       /\ (Abandoned /\ nreq < MaxRequests) => ENABLED ListenerReceive]_vars

\* The body of the second request could not be read: the listener is done
\* with it, the slot holds the payload of the first, and the third
\* request can be taken.
C27_Witness ==
    /\ Handled
    /\ nreq = 2
    /\ TheRequest.method = "POST"
    /\ TheRequest.headers = GoodHeaders(Unwrap(secret))
    /\ ~TheRequest.body.readable
    /\ cur.responses = <<>>
    /\ nacc = 1
    /\ IsSome(payload)
    /\ lpc = "wait"
    /\ ENABLED ListenerReceive

(***************************************************************************)
(* What the properties say of the mutexes.                                 *)
(***************************************************************************)
\* Thread t is not at its end and cannot take its step.
Blocked(t) == mx.pc[t] # 0 /\ ~ENABLED MutexStep(t)

(***************************************************************************)
(* C28.  No thread holds two of the mutexes payload, lockfile_path and     *)
(* secret at once; the thread that submits a work item to the main thread, *)
(* shows a native notification or spawns the notifier holds no mutex when  *)
(* it does; and a thread that cannot take its step waits for a mutex held  *)
(* by a thread that can take its own, so no set of threads waits for one   *)
(* another.                                                                *)
(***************************************************************************)
C28_LocksNeverNestedNorHeldAcrossCalls ==
    /\ \A t \in Threads : Cardinality(mx.held[t]) <= 1
    /\ mx.last.what \in {"run_on_main_thread", "show", "spawn"} =>
          mx.last.held = {}
    /\ \A t \in Threads :
          Blocked(t) =>
             /\ Program(t)[mx.pc[t]].op = "lock"
             /\ \E u \in Threads \ {t} :
                   /\ Program(t)[mx.pc[t]].m \in mx.held[u]
                   /\ ~Blocked(u)

\* The listener has just submitted a work item, holding nothing, while
\* save_settings holds the lock file's mutex and the destroyed handler
\* waits for it.
C28_Witness ==
    /\ mx.last = [thread |-> "listener", what |-> "run_on_main_thread",
                  held |-> {}]
    /\ mx.held["save_settings"] = {"lockfile_path"}
    /\ Blocked("destroyed")
    /\ mx.pc["poller"] = 3

=============================================================================
